---- MODULE Spec2Model ----
(***************************************************************************)
(* State-machine model of the GPT-5 powered PDF generation pipeline        *)
(* (services/pdf_generator.py) as driven by the module-level singleton of  *)
(* main.py: one generator instance serving a sequence of generate_pdf      *)
(* calls.  An oracle call is a step whose response is chosen from a small  *)
(* set of outcomes; every phase is translated from its code.               *)
(***************************************************************************)
EXTENDS Integers, Sequences, FiniteSets, TLC

\* ---------------------------------------------------------------- bounds
MaxSections == 2
MaxCalls == 2
MaxOrderLen == 2
MaxReorderSections == 3
MaxReorderLen == 3
MaxDataPoints == 8
MaxVizPoints == 6
MaxLabelPoints == 3
MaxEmphasis == 2
MaxRequestSections == 2
MaxPairs == 2

\* ------------------------------------------------------ program constants
MaxTableRows == 5
MaxBarPoints == 5
MaxPieSlices == 4
MaxKeyInsights == 5
MinChartPoints == 2
TocFirstPage == 3
TocPagesPerSection == 2
MaxBarLabel == 10
MaxPieLabel == 8

VARIABLES
    styles,              \* self.styles: style name -> primary colour it was built with
    colors,              \* self.colors: the primary colour last resolved ("unset" = {})
    calls,               \* number of generate_pdf calls started on the instance
    pc,                  \* position of the running call inside generate_pdf
    sections,            \* the sections argument of the running call
    doc_intelligence,    \* result of phase 1
    order_pos,           \* how many entries of optimal_order phase 2's loop has consumed
    optimized_sections,  \* phase 2's local accumulator
    optimized_content,   \* result of phase 2
    optimization_path,   \* how phase 2 returned: "none", "try" (its loop) or "except" (its fallback)
    layout_opt,          \* enhanced_structure['layout_optimization'], result of phase 3
    story,               \* the RenderBlock sequence built by phase 5
    oracle_log,          \* the oracle requests issued by the running call, in order
    raised_at,           \* where the running call raised ("none" when it did not)
    request,             \* request.sections at the endpoint: the number of pairs of each section
    layout_plan,         \* the layout_plan argument of the running call
    filename,            \* request.filename, then the filename argument ("" = None)
    status,              \* HTTP status of the endpoint's response (0 while there is none)
    reference            \* the outcome of an earlier run on another fresh generator

vars == <<styles, colors, calls, pc, sections, doc_intelligence,
          order_pos, optimized_sections, optimized_content, optimization_path,
          layout_opt, story, oracle_log, raised_at,
          request, layout_plan, filename, status, reference>>

\* What the generator's own steps never touch.
endpointVars == <<request, layout_plan, filename, status, reference>>

Min(a, b) == IF a <= b THEN a ELSE b

\* ------------------------------------------------------------- input data
HeaderOf(i) ==
    CASE i = 1 -> "Introduction"
      [] i = 2 -> "Results"
      [] i = 3 -> "Discussion"
      [] OTHER -> "Annex"

ContentOf(i) ==
    CASE i = 1 -> "Short text."
      [] i = 2 -> "Long results text."
      [] i = 3 -> "Discussion text."
      [] OTHER -> "Annex text."

\* A well-formed section list: one header/content pair per section.
InputSections(n) == [i \in 1..n |-> [header |-> HeaderOf(i), content |-> ContentOf(i)]]

\* ---------------------------------------------------------- style registry
\* getSampleStyleSheet(): the parent styles the generator derives from.
SampleStyleSheet ==
    [name \in {"Title", "Heading1", "Heading2", "Normal"} |-> "sample"]

\* The styles _setup_intelligent_styles registers, in the order it adds them.
IntelligentStyleNames ==
    <<"DocumentTitle", "SectionHeader", "SubsectionHeader", "OptimizedBody",
      "ExecutiveSummary", "KeyPoint", "TOCEntry">>

DefaultPrimary == "#2E4053"

\* HexColor(value): accepts a hex colour string, raises ValueError otherwise.
HexColorOk(value) == value \in {"#2E4053", "#1A5276"}

\* color_palette.get('primary', '#2E4053')
PalettePrimary(intel) ==
    IF intel.palette = "absent" THEN DefaultPrimary ELSE intel.palette

\* reportlab's StyleSheet1.add raises KeyError for a name already registered.
StyleAddRaises(registry, name) == name \in DOMAIN registry

\* -------------------------------------------------------- phase 1: analysis
NoOrder == [present |-> FALSE, list |-> <<>>]

\* _fallback_analysis: no structure_optimization, no design_system.
FallbackAnalysis ==
    [source |-> "fallback", has_title |-> TRUE, order |-> NoOrder,
     palette |-> "absent", subtitle |-> "", executive_summary |-> "",
     key_insights |-> <<>>]

\* The index values considered in an oracle's optimal_section_order for n
\* sections: the first and last section, one past the end, -1, and one below
\* -n.
OrderIndexes(n) == {0 - (n + 1), 0 - 1, 0, n - 1, n}

RECURSIVE SeqsUpTo(_, _)
SeqsUpTo(S, k) ==
    IF k = 0 THEN {<<>>}
    ELSE LET shorter == SeqsUpTo(S, k - 1)
         IN shorter \cup {Append(s, x) : s \in {t \in shorter : Len(t) = k - 1}, x \in S}

OrderLists(n) == SeqsUpTo(OrderIndexes(n), MaxOrderLen)

\* The parsed analysis responses considered: a plain one, ones that set the
\* section order, ones that set the design system, one with rich metadata,
\* and one lacking document_meta.title.
AnalysisPayloads(n) ==
    LET plain == [source |-> "oracle", has_title |-> TRUE, order |-> NoOrder,
                  palette |-> "absent", subtitle |-> "", executive_summary |-> "",
                  key_insights |-> <<>>]
    IN  {plain}
        \cup {[plain EXCEPT !.has_title = FALSE]}
        \cup {[plain EXCEPT !.order = [present |-> TRUE, list |-> l]] : l \in OrderLists(n)}
        \cup {[plain EXCEPT !.palette = p] : p \in {"#1A5276", "blue"}}
        \cup {[plain EXCEPT !.subtitle = "Subtitle", !.executive_summary = "Summary",
                            !.key_insights = <<"Insight">>]}

\* What an oracle call can come back with: an exception of the client, a body
\* that is not JSON, or a JSON object.
AnalysisResponses(n) ==
    {[kind |-> k, payload |-> FallbackAnalysis] : k \in {"exception", "not_json"}}
    \cup {[kind |-> "json", payload |-> p] : p \in AnalysisPayloads(n)}

\* json.loads, then the log line's intelligence['document_meta']['title'].
AnalysisParses(resp) == resp.kind = "json" /\ resp.payload.has_title

\* _gpt5_document_analysis: the parsed intelligence, or the fallback.
DocumentAnalysis(resp) ==
    IF AnalysisParses(resp) THEN resp.payload ELSE FallbackAnalysis

\* ------------------------------------------- phase 2: content optimization
\* doc_intelligence.get('structure_optimization', {}).get('optimal_section_order',
\* list(range(len(sections)))): the default applies only when the key is absent.
IdentityOrder(n) == [i \in 1..n |-> i - 1]

OptimalOrder(intel, n) ==
    IF intel.order.present THEN intel.order.list ELSE IdentityOrder(n)

\* A skip test that is off by one and also drops the last section.
OrderEntrySkippedOffByOne(idx, n) == idx >= n - 1

\* `if original_index >= len(sections): continue`
OrderEntrySkipped(idx, n) == idx >= n

\* sections[original_index] raises IndexError below -len(sections).
OrderEntryIndexError(idx, n) == idx < 0 - n

\* Python list indexing: a negative index counts from the end.
SectionAt(secs, idx) ==
    IF idx >= 0 THEN secs[idx + 1] ELSE secs[Len(secs) + idx + 1]

\* The position (1-based) of the next entry after `pos` the loop does not
\* skip, or 0 when the loop runs off the end of the list.
RECURSIVE NextUnskipped(_, _, _)
NextUnskipped(order, pos, n) ==
    IF pos >= Len(order) THEN 0
    ELSE IF OrderEntrySkipped(order[pos + 1], n) THEN NextUnskipped(order, pos + 1, n)
    ELSE pos + 1

EmptyStructure ==
    [present |-> TRUE, executive_summary |-> "", key_points |-> <<>>,
     data_extracted |-> <<>>, subsections |-> <<>>]

AbsentStructure == [EmptyStructure EXCEPT !.present = FALSE]

FullStructure ==
    [present |-> TRUE, executive_summary |-> "Section summary",
     key_points |-> <<"Key point">>,
     data_extracted |-> <<[metric |-> "Accuracy", value |-> <<"9", "5", "%">>]>>,
     subsections |-> <<[subheader |-> "Background", content |-> "Body text"]>>]

NoVisualization ==
    [has_visualizable_data |-> FALSE, chart_type |-> "none", data_points |-> <<>>]

\* A data point: label_type is the JSON type of its label ("absent" when the
\* point has no label key).
VizPoint(label, label_type, value) ==
    [label |-> label, label_type |-> label_type, value |-> value]

FullVisualization ==
    [has_visualizable_data |-> TRUE, chart_type |-> "bar",
     data_points |-> <<VizPoint("A", "str", <<"1", "0", "%">>),
                       VizPoint("B", "str", <<"2", "0", "%">>)>>]

\* A minimal parsed section response that keeps the header: header_type is
\* the JSON type of enhanced_header, text_emphasis the list under
\* formatting_enhancements.
BareSectionPayload(header) ==
    [has_header |-> TRUE, header_type |-> "str", enhanced_header |-> header,
     content_structure |-> EmptyStructure, text_emphasis |-> <<>>,
     visualization_data |-> NoVisualization]

\* The parsed section responses considered for a section with this header:
\* a minimal one keeping the header, a full one with a new header, one
\* without content_structure, one without enhanced_header, and (one factor at
\* a time: for a document whose analysis fell back) ones whose enhanced_header
\* is a JSON array or a JSON number.
SectionPayloads(header) ==
    LET bare == BareSectionPayload(header)
    IN  {bare,
         [bare EXCEPT !.enhanced_header = "Professional Overview",
                      !.content_structure = FullStructure,
                      !.visualization_data = FullVisualization],
         [bare EXCEPT !.enhanced_header = "Professional Overview",
                      !.content_structure = AbsentStructure],
         [bare EXCEPT !.has_header = FALSE]}
        \cup (IF doc_intelligence.source = "fallback"
              THEN {[bare EXCEPT !.header_type = "list"],
                    [bare EXCEPT !.header_type = "number"]}
              ELSE {})

SectionResponses(header) ==
    {[kind |-> k, payload |-> CHOOSE p \in SectionPayloads(header) : ~p.has_header]
        : k \in {"exception", "not_json"}}
    \cup {[kind |-> "json", payload |-> p] : p \in SectionPayloads(header)}

\* value[:50] works on a string and on a list; a number cannot be sliced.
HeaderSlices(payload) == payload.header_type \in {"str", "list"}

\* json.loads, then the log line's section_optimization['enhanced_header'][:50].
SectionParses(resp) ==
    resp.kind = "json" /\ resp.payload.has_header /\ HeaderSlices(resp.payload)

OptimizedSection(idx, section, payload) ==
    [original_index |-> idx,
     original_header |-> section.header,
     original_content |-> section.content,
     optimization |-> [enhanced_header |-> payload.enhanced_header,
                       header_type |-> payload.header_type,
                       content_structure |-> payload.content_structure,
                       text_emphasis |-> payload.text_emphasis,
                       visualization_data |-> payload.visualization_data]]

\* A fallback entry numbered from 1 (enumerate(sections, 1)).
FallbackSectionFromOne(i, section) ==
    [original_index |-> i + 1,
     original_header |-> section.header,
     original_content |-> section.content,
     optimization |-> [enhanced_header |-> section.header,
                       header_type |-> "str",
                       content_structure |-> EmptyStructure,
                       text_emphasis |-> <<>>,
                       visualization_data |-> NoVisualization]]

\* One entry of _fallback_content_optimization: the header kept, an empty
\* structure (no subsections key, no visualization_data key).
FallbackSection(i, section) ==
    [original_index |-> i,
     original_header |-> section.header,
     original_content |-> section.content,
     optimization |-> [enhanced_header |-> section.header,
                       header_type |-> "str",
                       content_structure |-> EmptyStructure,
                       text_emphasis |-> <<>>,
                       visualization_data |-> NoVisualization]]

\* A fallback that keeps the sections optimized so far and fills in the rest.
FallbackKeepingOptimized(secs) ==
    [i \in 1..Len(secs) |->
        IF i <= Len(optimized_sections) THEN optimized_sections[i]
        ELSE FallbackSection(i - 1, secs[i])]

\* _fallback_content_optimization: one entry per input section, in input order.
FallbackContentOptimization(secs) ==
    [i \in 1..Len(secs) |-> FallbackSection(i - 1, secs[i])]

\* ------------------------------------------------ phase 3: layout optimization
StructuralBlocks ==
    {"title_page", "table_of_contents", "executive_summary", "conclusions", "appendix"}

AllIncluded == [b \in StructuralBlocks |-> "true"]

\* _fallback_layout_optimization: every include flag True, no page breaks.
FallbackLayout ==
    [source |-> "fallback", has_document_flow |-> TRUE, include |-> AllIncluded,
     has_page_breaks |-> TRUE, optimal_page_breaks |-> {}]

NoLayout == [FallbackLayout EXCEPT !.source = "none"]

\* The parsed layout responses considered: all blocks included with every
\* choice of page breaks; one block's flag false, its flag missing, or its
\* entry missing; and a plan without document_flow.
LayoutPayloads ==
    LET full == [FallbackLayout EXCEPT !.source = "oracle"]
    IN  {[full EXCEPT !.optimal_page_breaks = s] : s \in SUBSET (0..(MaxSections - 1))}
        \cup {[full EXCEPT !.has_page_breaks = FALSE]}
        \cup {[full EXCEPT !.include = [AllIncluded EXCEPT ![b] = v]]
                : b \in StructuralBlocks, v \in {"false", "no_flag", "no_entry"}}
        \cup {[full EXCEPT !.has_document_flow = FALSE]}

LayoutResponses ==
    {[kind |-> k, payload |-> FallbackLayout] : k \in {"exception", "not_json"}}
    \cup {[kind |-> "json", payload |-> p] : p \in LayoutPayloads}

\* json.loads is the only check the layout phase makes on the response.
LayoutParses(resp) == resp.kind = "json"

\* _gpt5_layout_optimization: the parsed plan as it came, or the fallback.
LayoutOptimization(resp) ==
    IF LayoutParses(resp) THEN resp.payload ELSE FallbackLayout

\* ------------------------------------------------------ phase 4: styles
\* The dict literal of self.colors evaluates HexColor on the palette entry
\* before anything is assigned.
ColorSetupRaises(intel) == ~HexColorOk(PalettePrimary(intel))

\* self.styles.add(ParagraphStyle(name='DocumentTitle', ...)) is the first add.
StyleSetupRaises(registry) == StyleAddRaises(registry, IntelligentStyleNames[1])

\* The registry after all seven adds: each new style carries the colours
\* resolved from this call's design system.
RegisterStyles(registry, primary) ==
    [name \in DOMAIN registry \cup {IntelligentStyleNames[i] : i \in 1..Len(IntelligentStyleNames)}
        |-> IF name \in DOMAIN registry THEN registry[name] ELSE primary]

\* ---------------------------------------------------- phase 5: assembly
Block(kind, part, role, sec, text, rows, pal) ==
    [kind |-> kind, part |-> part, role |-> role, sec |-> sec, text |-> text,
     rows |-> rows, pal |-> pal]

\* Paragraph(text, self.styles[style]): the colour is the registered style's.
Para(part, role, sec, text, style) ==
    Block("Paragraph", part, role, sec, text, <<>>, styles[style])

\* Paragraph with a style built on the spot from self.colors.
LocalPara(part, role, sec, text) ==
    Block("Paragraph", part, role, sec, text, <<>>, colors)

SpacerBlock(part, sec) == Block("Spacer", part, "spacer", sec, "", <<>>, "none")

PageBreakBlock(part, sec) == Block("PageBreak", part, "page_break", sec, "", <<>>, "none")

RECURSIVE Flatten(_)
Flatten(seqs) ==
    IF seqs = <<>> THEN <<>> ELSE Head(seqs) \o Flatten(Tail(seqs))

\* doc_meta.get('title', 'Professional Analysis Report')
TitleOf(intel) ==
    IF intel.source = "oracle" THEN "Oracle title" ELSE "Professional Analysis Report"

CreateIntelligentTitlePage(intel) ==
    <<Para("title_page", "title", 0, TitleOf(intel), "DocumentTitle")>>
    \o (IF intel.subtitle # ""
        THEN <<LocalPara("title_page", "subtitle", 0, intel.subtitle)>> ELSE <<>>)
    \o <<LocalPara("title_page", "badge", 0, "badge"),
         LocalPara("title_page", "meta", 0, "meta"),
         PageBreakBlock("title_page", 0)>>

\* A page estimate that gives a section without extracted data one page.
TocRowsByContent(content) ==
    LET n == Len(content)
        pages(k) == IF content[k].optimization.content_structure.data_extracted = <<>>
                    THEN 1 ELSE TocPagesPerSection
        RECURSIVE before(_)
        before(k) == IF k <= 1 THEN TocFirstPage + 1 ELSE before(k - 1) + pages(k - 1)
    IN  <<[entry |-> "Executive Summary", page |-> TocFirstPage]>>
        \o [k \in 1..n |-> [entry |-> content[k].optimization.enhanced_header,
                            page |-> before(k)]]
        \o <<[entry |-> "Recommendations", page |-> before(n + 1)],
             [entry |-> "Appendix", page |-> before(n + 1) + 1]>>

\* page_num starts at 3, +1 after the executive summary, +2 per section.
TocRows(content) ==
    LET n == Len(content)
        first == TocFirstPage + 1
    IN  <<[entry |-> "Executive Summary", page |-> TocFirstPage]>>
        \o [k \in 1..n |-> [entry |-> content[k].optimization.enhanced_header,
                            page |-> first + TocPagesPerSection * (k - 1)]]
        \o <<[entry |-> "Recommendations", page |-> first + TocPagesPerSection * n],
             [entry |-> "Appendix", page |-> first + TocPagesPerSection * n + 1]>>

CreateIntelligentToc(content) ==
    <<Para("table_of_contents", "header", 0, "Table of Contents", "SectionHeader"),
      SpacerBlock("table_of_contents", 0),
      Block("Table", "table_of_contents", "toc_table", 0, "", TocRows(content), colors),
      PageBreakBlock("table_of_contents", 0)>>

CreateIntelligentExecutiveSummary(intel) ==
    <<Para("executive_summary", "header", 0, "Executive Summary", "SectionHeader")>>
    \o (IF intel.executive_summary # ""
        THEN <<Para("executive_summary", "summary", 0, intel.executive_summary,
                    "ExecutiveSummary")>>
        ELSE <<>>)
    \o (IF intel.key_insights # <<>>
        THEN <<Para("executive_summary", "subheader", 0, "Key Findings", "SubsectionHeader")>>
             \o [k \in 1..Min(Len(intel.key_insights), MaxKeyInsights) |->
                    Para("executive_summary", "key_point", 0, intel.key_insights[k], "KeyPoint")]
        ELSE <<>>)
    \o <<SpacerBlock("executive_summary", 0)>>

\* table_data = [['Metric', 'Value', 'Importance', 'Context']]
TableHeaderRow == [metric |-> "Metric", value |-> <<"V", "a", "l", "u", "e">>]

\* table_data.append([metric, value, importance, context]) for one item.
TableRow(item) == [metric |-> item.metric, value |-> item.value]

\* A table that takes every data point (no [:5]).
CreateIntelligentTableUncapped(data_extracted) ==
    IF data_extracted = <<>> THEN <<>>
    ELSE <<TableHeaderRow>>
         \o [k \in 1..Len(data_extracted) |-> TableRow(data_extracted[k])]

\* _create_intelligent_table: no table for an empty list, else the header row
\* and one row for each of the first 5 items.
CreateIntelligentTable(data_extracted) ==
    IF data_extracted = <<>> THEN <<>>
    ELSE <<TableHeaderRow>>
         \o [k \in 1..Min(Len(data_extracted), MaxTableRows) |-> TableRow(data_extracted[k])]

IsDigit(c) == c \in {"0", "1", "2", "3", "4", "5", "6", "7", "8", "9"}

\* The last position of the run of digits that starts at position i.
RECURSIVE DigitRunEnd(_, _)
DigitRunEnd(v, i) ==
    IF i < Len(v) /\ IsDigit(v[i + 1]) THEN DigitRunEnd(v, i + 1) ELSE i

\* re.search(r'(\d+(?:\.\d+)?)', value).group(1): the first run of digits,
\* with a fraction when one follows; <<>> when the value holds no digit.
FirstNumericToken(v) ==
    IF \A i \in 1..Len(v) : ~IsDigit(v[i]) THEN <<>>
    ELSE LET s == CHOOSE i \in 1..Len(v) :
                    IsDigit(v[i]) /\ \A j \in 1..(i - 1) : ~IsDigit(v[j])
             e == DigitRunEnd(v, s)
             f == IF e + 2 <= Len(v) /\ v[e + 1] = "." /\ IsDigit(v[e + 2])
                  THEN DigitRunEnd(v, e + 2) ELSE e
         IN  SubSeq(v, s, f)

\* point.get('label', 'Item')[:limit]
LabelText(point, limit) ==
    LET label == IF point.label_type = "absent" THEN "Item" ELSE point.label
    IN  SubSeq(label, 1, Min(Len(label), limit))

\* Slicing raises TypeError on a label that is a number.
LabelSliceRaises(point) == point.label_type = "number"

\* The values and labels a chart is given.
ChartData(values, labels) == [values |-> values, labels |-> labels]

NoChart == ChartData(<<>>, <<>>)

\* A loop that keeps every point, one without a number plotted as 0.
PlottedPointsKeepAll(points, limit) ==
    ChartData([k \in 1..Len(points) |->
                  IF FirstNumericToken(points[k].value) = <<>>
                  THEN <<"0">> ELSE FirstNumericToken(points[k].value)],
              [k \in 1..Len(points) |-> LabelText(points[k], limit)])

\* The loop over data_points[:n]: values.append(value) comes first, then
\* labels.append(label[:limit]); the bare except skips the rest of the turn
\* when the value holds no number (nothing appended) or when slicing the
\* label raises (the value already appended).
RECURSIVE PlottedPoints(_, _)
PlottedPoints(points, limit) ==
    IF points = <<>> THEN NoChart
    ELSE LET tok == FirstNumericToken(Head(points).value)
             rest == PlottedPoints(Tail(points), limit)
         IN  IF tok = <<>> THEN rest
             ELSE IF LabelSliceRaises(Head(points))
                  THEN ChartData(<<tok>> \o rest.values, rest.labels)
             ELSE ChartData(<<tok>> \o rest.values,
                            <<LabelText(Head(points), limit)>> \o rest.labels)

ChartLimit(chart_type) == IF chart_type = "pie" THEN MaxPieSlices ELSE MaxBarPoints

LabelLimit(chart_type) == IF chart_type = "pie" THEN MaxPieLabel ELSE MaxBarLabel

\* _create_intelligent_visualization: the values and labels of the chart added
\* to the drawing; NoChart when the drawing stays empty or is not built.
CreateIntelligentVisualization(viz) ==
    IF Len(viz.data_points) < MinChartPoints THEN NoChart
    ELSE IF viz.chart_type \notin {"bar", "pie"} THEN NoChart
    ELSE PlottedPoints(SubSeq(viz.data_points, 1,
                              Min(Len(viz.data_points), ChartLimit(viz.chart_type))),
                       LabelLimit(viz.chart_type))

\* ---- text of a body paragraph: strings are Python str ----

CharAt(s, i) == IF i \in 1..Len(s) THEN SubSeq(s, i, i) ELSE ""

\* s[i:].startswith(t), i counted from 1
StartsWith(s, t, i) == i + Len(t) - 1 <= Len(s) /\ SubSeq(s, i, i + Len(t) - 1) = t

\* text in enhanced, for a non-empty text
Contains(s, t) == \E i \in 1..Len(s) : StartsWith(s, t, i)

Leftmost(S) == CHOOSE j \in S : \A k \in S : j <= k

\* str.replace(t, r) from position i on: the occurrences of t are taken from
\* the left and do not overlap.
RECURSIVE ReplaceFrom(_, _, _, _)
ReplaceFrom(s, t, r, i) ==
    LET found == {j \in i..Len(s) : StartsWith(s, t, j)}
    IN  IF found = {} THEN SubSeq(s, i, Len(s))
        ELSE LET j == Leftmost(found)
             IN  SubSeq(s, i, j - 1) \o r \o ReplaceFrom(s, t, r, j + Len(t))

StrReplace(s, t, r) == ReplaceFrom(s, t, r, 1)

DecimalDigits == {"0", "1", "2", "3", "4", "5", "6", "7", "8", "9"}

\* The characters \w matches in the text considered.
WordChars ==
    DecimalDigits \cup {"_"}
    \cup {"a", "b", "c", "d", "e", "f", "g", "h", "i", "j", "k", "l", "m",
           "n", "o", "p", "q", "r", "s", "t", "u", "v", "w", "x", "y", "z"}
    \cup {"A", "B", "C", "D", "E", "F", "G", "H", "I", "J", "K", "L", "M",
           "N", "O", "P", "Q", "R", "S", "T", "U", "V", "W", "X", "Y", "Z"}

\* Last position of the run of digits that starts at i; i - 1 when s[i] is no digit.
RECURSIVE DigitsEnd(_, _)
DigitsEnd(s, i) ==
    IF CharAt(s, i) \in DecimalDigits THEN DigitsEnd(s, i + 1) ELSE i - 1

\* Where a match of \d+(?:\.\d+)?% that starts at i ends; 0 when none starts at i.
PercentMatchEnd(s, i) ==
    LET j == DigitsEnd(s, i)
        e == IF CharAt(s, j + 1) = "." /\ DigitsEnd(s, j + 2) >= j + 2
             THEN DigitsEnd(s, j + 2) ELSE j
    IN  IF j >= i /\ CharAt(s, e + 1) = "%" THEN e + 1 ELSE 0

\* re.sub(r'(\d+(?:\.\d+)?%)', r'<b>\1</b>', s) from position i on
RECURSIVE BoldPercentagesFrom(_, _)
BoldPercentagesFrom(s, i) ==
    LET found == {j \in i..Len(s) : PercentMatchEnd(s, j) > 0}
    IN  IF found = {} THEN SubSeq(s, i, Len(s))
        ELSE LET j == Leftmost(found)
                 e == PercentMatchEnd(s, j)
             IN  SubSeq(s, i, j - 1) \o "<b>" \o SubSeq(s, j, e) \o "</b>"
                 \o BoldPercentagesFrom(s, e + 1)

DomainTerm == "TR Band"

\* \b(TR Band)\b matches at i: the term stands there with no word character
\* right before or right after it.
TermMatchesAt(s, i) ==
    /\ StartsWith(s, DomainTerm, i)
    /\ CharAt(s, i - 1) \notin WordChars
    /\ CharAt(s, i + Len(DomainTerm)) \notin WordChars

\* re.sub(r'\b(TR Band)\b', r'<i>\1</i>', s) from position i on
RECURSIVE ItalicTermFrom(_, _)
ItalicTermFrom(s, i) ==
    LET found == {j \in i..Len(s) : TermMatchesAt(s, j)}
    IN  IF found = {} THEN SubSeq(s, i, Len(s))
        ELSE LET j == Leftmost(found)
             IN  SubSeq(s, i, j - 1) \o "<i>" \o DomainTerm \o "</i>"
                 \o ItalicTermFrom(s, j + Len(DomainTerm))

\* One entry of text_emphasis; has_format is FALSE when it has no format key.
Emphasis(text, has_format, format) ==
    [text |-> text, has_format |-> has_format, format |-> format]

\* emphasis.get('format', 'bold')
FormatOf(emphasis) == IF emphasis.has_format THEN emphasis.format ELSE "bold"

EmphasisTag(format_type) ==
    CASE format_type = "bold" -> "b"
      [] format_type = "italic" -> "i"
      [] format_type = "underline" -> "u"

\* A loop body that treats every other format as bold.
ApplyEmphasisDefaultingToBold(enhanced, emphasis) ==
    LET text == emphasis.text
        tag == IF FormatOf(emphasis) \in {"italic", "underline"}
               THEN EmphasisTag(FormatOf(emphasis)) ELSE "b"
    IN  IF text # "" /\ Contains(enhanced, text)
        THEN StrReplace(enhanced, text, "<" \o tag \o ">" \o text \o "</" \o tag \o ">")
        ELSE enhanced

\* One turn of the loop over text_emphasis.
ApplyEmphasis(enhanced, emphasis) ==
    LET text == emphasis.text
        format_type == FormatOf(emphasis)
    IN  IF text # "" /\ Contains(enhanced, text)
           /\ format_type \in {"bold", "italic", "underline"}
        THEN LET tag == EmphasisTag(format_type)
             IN  StrReplace(enhanced, text,
                            "<" \o tag \o ">" \o text \o "</" \o tag \o ">")
        ELSE enhanced

\* The loop over text_emphasis, in list order.
RECURSIVE ApplyAllEmphasis(_, _)
ApplyAllEmphasis(enhanced, text_emphasis) ==
    IF text_emphasis = <<>> THEN enhanced
    ELSE ApplyAllEmphasis(ApplyEmphasis(enhanced, Head(text_emphasis)),
                          Tail(text_emphasis))

\* _apply_intelligent_formatting
ApplyIntelligentFormatting(content, optimization) ==
    LET enhanced == ApplyAllEmphasis(content, optimization.text_emphasis)
    IN  ItalicTermFrom(BoldPercentagesFrom(enhanced, 1), 1)

SubsectionBlocks(i, sub, optimization) ==
    (IF sub.subheader # ""
     THEN <<Para("sections", "subheader", i, sub.subheader, "SubsectionHeader")>> ELSE <<>>)
    \o (IF sub.content # ""
        THEN <<Para("sections", "body", i,
                    ApplyIntelligentFormatting(sub.content, optimization),
                    "OptimizedBody")>>
        ELSE <<>>)

\* The blocks of the section at position i (0-based) of optimized_content.
SectionBlocks(i, section, page_breaks) ==
    LET opt == section.optimization
        cs == opt.content_structure
        table == CreateIntelligentTable(cs.data_extracted)
        viz == opt.visualization_data
        chart == IF viz.has_visualizable_data /\ viz.data_points # <<>>
                 THEN CreateIntelligentVisualization(viz) ELSE NoChart
    IN  <<Para("sections", "header", i, opt.enhanced_header, "SectionHeader")>>
        \o (IF cs.executive_summary # ""
            THEN <<Para("sections", "summary", i, cs.executive_summary, "ExecutiveSummary"),
                   SpacerBlock("sections", i)>>
            ELSE <<>>)
        \o (IF table # <<>>
            THEN <<Block("Table", "sections", "table", i, "", table, colors),
                   SpacerBlock("sections", i)>>
            ELSE <<>>)
        \o Flatten([k \in 1..Len(cs.subsections) |-> SubsectionBlocks(i, cs.subsections[k], opt)])
        \o (IF cs.key_points # <<>>
            THEN <<Para("sections", "key_points_title", i, "Key Points:", "SubsectionHeader")>>
                 \o [k \in 1..Len(cs.key_points) |->
                        Para("sections", "key_point", i, cs.key_points[k], "KeyPoint")]
            ELSE <<>>)
        \o (IF chart.values # <<>>
            THEN <<Block("Chart", "sections", "chart", i, "", chart, colors),
                   SpacerBlock("sections", i)>>
            ELSE <<>>)
        \o <<SpacerBlock("sections", i)>>
        \o (IF i \in page_breaks THEN <<PageBreakBlock("sections", i)>> ELSE <<>>)

\* Page breaks taken from the planner's layout_plan instead.
PageBreaksOfLayoutPlan(layout) == layout_plan.section_breaks

\* Page breaks read as section numbers counted from 1.
PageBreaksOneBased(layout) ==
    IF layout.has_page_breaks THEN {i - 1 : i \in layout.optimal_page_breaks} ELSE {}

\* layout_opt.get('page_optimization', {}).get('optimal_page_breaks', [])
PageBreaksOf(layout) ==
    IF layout.has_page_breaks THEN layout.optimal_page_breaks ELSE {}

CreateOptimizedSections(content, layout) ==
    Flatten([k \in 1..Len(content) |-> SectionBlocks(k - 1, content[k], PageBreaksOf(layout))])

\* Paragraph(enhanced_header, ...) raises on a header that is not a string;
\* optimization['content_structure'] raises KeyError on a section without it.
SectionsRaise(content) ==
    \E k \in 1..Len(content) :
        \/ content[k].optimization.header_type # "str"
        \/ ~content[k].optimization.content_structure.present

FallbackRecommendations ==
    <<"Implement standardized protocols", "Establish regular monitoring",
      "Provide comprehensive training", "Create documentation templates",
      "Schedule periodic reviews">>

\* The recommendation oracle's outcomes: a failure, or a parsed JSON array.
RecommendationResponses ==
    {[kind |-> "exception", list |-> <<>>], [kind |-> "not_json", list |-> <<>>],
     [kind |-> "json", list |-> <<"Oracle recommendation">>]}

\* _create_intelligent_conclusions: the oracle's list, or the five fixed ones.
CreateIntelligentConclusions(resp) ==
    LET recs == IF resp.kind = "json" THEN resp.list ELSE FallbackRecommendations
    IN  <<PageBreakBlock("conclusions", 0),
          Para("conclusions", "header", 0, "Recommendations", "SectionHeader")>>
        \o Flatten([k \in 1..Len(recs) |->
                      <<Para("conclusions", "key_point", 0, recs[k], "KeyPoint"),
                        SpacerBlock("conclusions", 0)>>])

CreateIntelligentAppendix ==
    <<PageBreakBlock("appendix", 0),
      Para("appendix", "header", 0, "Appendix", "SectionHeader"),
      Para("appendix", "subheader", 0, "A. Data Sources and Methodology", "SubsectionHeader"),
      Para("appendix", "body", 0, "methodology", "OptimizedBody"),
      SpacerBlock("appendix", 0),
      Para("appendix", "subheader", 0, "B. Technical Specifications", "SubsectionHeader"),
      Para("appendix", "body", 0, "technical specification", "OptimizedBody"),
      SpacerBlock("appendix", 0),
      Para("appendix", "subheader", 0, "C. Quality Assurance", "SubsectionHeader"),
      Para("appendix", "body", 0, "quality assurance", "OptimizedBody")>>

\* layout_opt['document_flow'][block]['include']: KeyError when the plan has
\* no document_flow, no entry for the block, or no include flag in it.
IncludeRaises(layout, block) ==
    ~layout.has_document_flow \/ layout.include[block] \in {"no_flag", "no_entry"}

Included(layout, block) == layout.include[block] = "true"

\* The first place _build_optimized_document raises, in its order of
\* evaluation, or "none".
BuildRaisesAt(content, layout) ==
    CASE IncludeRaises(layout, "title_page") -> "title_page"
      [] ~IncludeRaises(layout, "title_page")
         /\ IncludeRaises(layout, "executive_summary") -> "executive_summary"
      [] ~IncludeRaises(layout, "title_page")
         /\ ~IncludeRaises(layout, "executive_summary")
         /\ SectionsRaise(content) -> "sections"
      [] ~IncludeRaises(layout, "title_page")
         /\ ~IncludeRaises(layout, "executive_summary")
         /\ ~SectionsRaise(content)
         /\ IncludeRaises(layout, "conclusions") -> "conclusions"
      [] ~IncludeRaises(layout, "title_page")
         /\ ~IncludeRaises(layout, "executive_summary")
         /\ ~SectionsRaise(content)
         /\ ~IncludeRaises(layout, "conclusions")
         /\ IncludeRaises(layout, "appendix") -> "appendix"
      [] OTHER -> "none"

\* Whether the build gets as far as the recommendation oracle call.
ReachesConclusions(content, layout) ==
    /\ BuildRaisesAt(content, layout) \in {"appendix", "none"}
    /\ Included(layout, "conclusions")

\* An assembly that extends the story with the executive summary before the
\* table of contents.
BuildSummaryBeforeToc(content, layout, intel, rec) ==
    (IF Included(layout, "title_page") THEN CreateIntelligentTitlePage(intel) ELSE <<>>)
    \o (IF Included(layout, "executive_summary")
        THEN CreateIntelligentExecutiveSummary(intel) ELSE <<>>)
    \o CreateIntelligentToc(content)
    \o CreateOptimizedSections(content, layout)
    \o (IF Included(layout, "conclusions") THEN CreateIntelligentConclusions(rec) ELSE <<>>)
    \o (IF Included(layout, "appendix") THEN CreateIntelligentAppendix ELSE <<>>)

\* _build_optimized_document when nothing raises: the parts in their fixed
\* order; the table of contents is added whatever its flag says.
BuildOptimizedDocument(content, layout, intel, rec) ==
    (IF Included(layout, "title_page") THEN CreateIntelligentTitlePage(intel) ELSE <<>>)
    \o CreateIntelligentToc(content)
    \o (IF Included(layout, "executive_summary")
        THEN CreateIntelligentExecutiveSummary(intel) ELSE <<>>)
    \o CreateOptimizedSections(content, layout)
    \o (IF Included(layout, "conclusions") THEN CreateIntelligentConclusions(rec) ELSE <<>>)
    \o (IF Included(layout, "appendix") THEN CreateIntelligentAppendix ELSE <<>>)

\* _default_layout_plan: no section breaks.
DefaultLayoutPlan == [strategy |-> "standard_professional_fallback", section_breaks |-> {}]

NoReference == [set |-> FALSE, story |-> <<>>, oracle_log |-> <<>>,
                layout_plan |-> DefaultLayoutPlan, filename |-> ""]

\* generate_pdf driven directly, with the default plan and no earlier run.
DirectCall ==
    /\ request = <<>>
    /\ layout_plan = DefaultLayoutPlan
    /\ filename = ""
    /\ status = 0
    /\ reference = NoReference

LogEntry(kind, ok) == [kind |-> kind, ok |-> ok]

Init ==
    /\ styles = SampleStyleSheet
    /\ colors = "unset"
    /\ calls = 0
    /\ pc = "idle"
    /\ sections = <<>>
    /\ doc_intelligence = FallbackAnalysis
    /\ order_pos = 0
    /\ optimized_sections = <<>>
    /\ optimized_content = <<>>
    /\ optimization_path = "none"
    /\ layout_opt = NoLayout
    /\ story = <<>>
    /\ oracle_log = <<>>
    /\ raised_at = "none"
    /\ DirectCall

\* --------------------------------------------------------------- actions
\* The endpoint hands a validated section list to the shared generator.
StartCall ==
    /\ pc = "idle"
    /\ calls < MaxCalls
    /\ \E n \in 1..MaxSections : sections' = InputSections(n)
    /\ calls' = calls + 1
    /\ pc' = "analysis"
    /\ UNCHANGED <<styles, colors, doc_intelligence, order_pos, optimized_sections,
                   optimized_content, optimization_path, layout_opt, story, oracle_log,
                   raised_at>>
    /\ UNCHANGED endpointVars

\* An analysis phase that asks again when its request failed.
AnalysisRetrying ==
    /\ pc = "analysis"
    /\ \E resp \in AnalysisResponses(Len(sections)) :
          /\ doc_intelligence' = DocumentAnalysis(resp)
          /\ oracle_log' = Append(oracle_log, LogEntry("analysis", AnalysisParses(resp)))
          /\ pc' = IF AnalysisParses(resp) THEN "optimization" ELSE "analysis"
    /\ UNCHANGED <<styles, colors, calls, sections, order_pos, optimized_sections,
                   optimized_content, optimization_path, layout_opt, story, raised_at>>
    /\ UNCHANGED endpointVars

\* Phase 1: one oracle request; any failure yields the fallback analysis.
Analysis ==
    /\ pc = "analysis"
    /\ \E resp \in AnalysisResponses(Len(sections)) :
          /\ doc_intelligence' = DocumentAnalysis(resp)
          /\ oracle_log' = Append(oracle_log, LogEntry("analysis", AnalysisParses(resp)))
    /\ pc' = "optimization"
    /\ UNCHANGED <<styles, colors, calls, sections, order_pos, optimized_sections,
                   optimized_content, optimization_path, layout_opt, story, raised_at>>
    /\ UNCHANGED endpointVars

\* Phase 2, one turn of the loop that reaches the oracle: the request for the
\* next unskipped entry; a failure drops the accumulator for the fallback.
OptimizeSection ==
    /\ pc = "optimization"
    /\ LET n == Len(sections)
           order == OptimalOrder(doc_intelligence, n)
           next == NextUnskipped(order, order_pos, n)
       IN  /\ next # 0
           /\ ~OrderEntryIndexError(order[next], n)
           /\ LET section == SectionAt(sections, order[next])
              IN  \E resp \in SectionResponses(section.header) :
                     /\ oracle_log' = Append(oracle_log, LogEntry("section", SectionParses(resp)))
                     /\ IF SectionParses(resp)
                        THEN /\ optimized_sections' =
                                    Append(optimized_sections,
                                           OptimizedSection(order[next], section, resp.payload))
                             /\ order_pos' = next
                             /\ UNCHANGED <<optimized_content, optimization_path, pc>>
                        ELSE /\ optimized_sections' = <<>>
                             /\ order_pos' = 0
                             /\ optimized_content' = FallbackContentOptimization(sections)
                             /\ optimization_path' = "except"
                             /\ pc' = "layout"
    /\ UNCHANGED <<styles, colors, calls, sections, doc_intelligence, layout_opt, story,
                   raised_at>>
    /\ UNCHANGED endpointVars

\* Phase 2, an entry below -len(sections): IndexError, caught by the phase.
OptimizationIndexError ==
    /\ pc = "optimization"
    /\ LET n == Len(sections)
           order == OptimalOrder(doc_intelligence, n)
           next == NextUnskipped(order, order_pos, n)
       IN  /\ next # 0
           /\ OrderEntryIndexError(order[next], n)
    /\ optimized_sections' = <<>>
    /\ order_pos' = 0
    /\ optimized_content' = FallbackContentOptimization(sections)
    /\ optimization_path' = "except"
    /\ pc' = "layout"
    /\ UNCHANGED <<styles, colors, calls, sections, doc_intelligence, layout_opt, story,
                   oracle_log, raised_at>>
    /\ UNCHANGED endpointVars

\* Phase 2, the loop ran off the end of the list: return the accumulator.
OptimizationReturn ==
    /\ pc = "optimization"
    /\ NextUnskipped(OptimalOrder(doc_intelligence, Len(sections)), order_pos,
                     Len(sections)) = 0
    /\ optimized_content' = optimized_sections
    /\ optimization_path' = "try"
    /\ optimized_sections' = <<>>
    /\ order_pos' = 0
    /\ pc' = "layout"
    /\ UNCHANGED <<styles, colors, calls, sections, doc_intelligence, layout_opt, story,
                   oracle_log, raised_at>>
    /\ UNCHANGED endpointVars

\* Phase 3: one oracle request; a response that parses is taken as it is.
Layout ==
    /\ pc = "layout"
    /\ \E resp \in LayoutResponses :
          /\ layout_opt' = LayoutOptimization(resp)
          /\ oracle_log' = Append(oracle_log, LogEntry("layout", LayoutParses(resp)))
    /\ pc' = "styles"
    /\ UNCHANGED <<styles, colors, calls, sections, doc_intelligence, order_pos,
                   optimized_sections, optimized_content, optimization_path, story,
                   raised_at>>
    /\ UNCHANGED endpointVars

\* Phase 4: _setup_intelligent_styles on the instance's own registry.
SetupIntelligentStyles ==
    /\ pc = "styles"
    /\ IF ColorSetupRaises(doc_intelligence)
       THEN /\ pc' = "raised"
            /\ raised_at' = "styles_color"
            /\ UNCHANGED <<styles, colors>>
       ELSE /\ colors' = PalettePrimary(doc_intelligence)
            /\ IF StyleSetupRaises(styles)
               THEN /\ pc' = "raised"
                    /\ raised_at' = "styles_add"
                    /\ UNCHANGED styles
               ELSE /\ styles' = RegisterStyles(styles, PalettePrimary(doc_intelligence))
                    /\ pc' = "build"
                    /\ UNCHANGED raised_at
    /\ UNCHANGED <<calls, sections, doc_intelligence, order_pos, optimized_sections,
                   optimized_content, optimization_path, layout_opt, story, oracle_log>>
    /\ UNCHANGED endpointVars

\* Phase 5: _build_optimized_document, with the recommendation request the
\* conclusions make when the build gets that far.
BuildDocument ==
    /\ pc = "build"
    /\ \E rec \in RecommendationResponses :
          /\ oracle_log' = IF ReachesConclusions(optimized_content, layout_opt)
                           THEN Append(oracle_log, LogEntry("recommendations", rec.kind = "json"))
                           ELSE oracle_log
          /\ IF BuildRaisesAt(optimized_content, layout_opt) = "none"
             THEN /\ story' = BuildOptimizedDocument(optimized_content, layout_opt,
                                                     doc_intelligence, rec)
                  /\ pc' = "render"
                  /\ UNCHANGED raised_at
             ELSE /\ pc' = "raised"
                  /\ raised_at' = BuildRaisesAt(optimized_content, layout_opt)
                  /\ UNCHANGED story
    /\ UNCHANGED <<styles, colors, calls, sections, doc_intelligence, order_pos,
                   optimized_sections, optimized_content, optimization_path, layout_opt>>
    /\ UNCHANGED endpointVars

\* doc.build(story): the external renderer, which may itself fail.
Render ==
    /\ pc = "render"
    /\ \E ok \in BOOLEAN :
          IF ok THEN pc' = "done" /\ UNCHANGED raised_at
                ELSE pc' = "raised" /\ raised_at' = "render"
    /\ UNCHANGED <<styles, colors, calls, sections, doc_intelligence, order_pos,
                   optimized_sections, optimized_content, optimization_path, layout_opt,
                   story, oracle_log>>
    /\ UNCHANGED endpointVars

\* generate_pdf returns or raises to the endpoint; the instance stays.
Return ==
    /\ pc \in {"done", "raised"}
    /\ pc' = "idle"
    /\ sections' = <<>>
    /\ doc_intelligence' = FallbackAnalysis
    /\ order_pos' = 0
    /\ optimized_sections' = <<>>
    /\ optimized_content' = <<>>
    /\ optimization_path' = "none"
    /\ layout_opt' = NoLayout
    /\ story' = <<>>
    /\ oracle_log' = <<>>
    /\ raised_at' = "none"
    /\ UNCHANGED <<styles, colors, calls>>
    /\ UNCHANGED endpointVars

Next ==
    \/ StartCall
    \/ Analysis
    \/ OptimizeSection
    \/ OptimizationIndexError
    \/ OptimizationReturn
    \/ Layout
    \/ SetupIntelligentStyles
    \/ BuildDocument
    \/ Render
    \/ Return

Spec == Init /\ [][Next]_vars

\* ------------------------------------------- the section reorderer alone
\* The entries considered in an order over up to MaxReorderSections sections:
\* the first section, the third, and one far past the end.
ReorderIndexes == {0, 2, 5}

\* A parsed analysis that sets optimal_section_order and nothing else.
AnalysisWithOrder(list) ==
    [FallbackAnalysis EXCEPT !.source = "oracle",
                             !.order = [present |-> TRUE, list |-> list]]

\* generate_pdf on a fresh generator, phase 1 done: the analysis came back
\* with one of the orders considered.
ReorderInit ==
    /\ styles = SampleStyleSheet
    /\ colors = "unset"
    /\ calls = 1
    /\ pc = "optimization"
    /\ \E n \in 1..MaxReorderSections :
          \E list \in SeqsUpTo(ReorderIndexes, MaxReorderLen) :
              /\ sections = InputSections(n)
              /\ doc_intelligence = AnalysisWithOrder(list)
    /\ order_pos = 0
    /\ optimized_sections = <<>>
    /\ optimized_content = <<>>
    /\ optimization_path = "none"
    /\ layout_opt = NoLayout
    /\ story = <<>>
    /\ oracle_log = <<LogEntry("analysis", TRUE)>>
    /\ raised_at = "none"
    /\ DirectCall

ReorderNext ==
    \/ OptimizeSection
    \/ OptimizationReturn

ReorderSpec == ReorderInit /\ [][ReorderNext]_vars

\* ------------------------------------- the table and chart renderer alone
DataPoint(metric) == [metric |-> metric, value |-> <<"9", "5", "%">>]

\* data_extracted lists of up to MaxDataPoints items of two metrics.
DataPointLists ==
    SeqsUpTo({DataPoint("Accuracy"), DataPoint("Recall")}, MaxDataPoints)

\* The data points considered for a chart: two percentages, a value with no
\* number, and a value whose number has a fraction.
VizPoints ==
    {VizPoint("A", "str", <<"1", "0", "%">>),
     VizPoint("B", "str", <<"a", "b", "c">>),
     VizPoint("C", "str", <<"2", "0", "%">>),
     VizPoint("D", "str", <<"a", "1", ".", "5">>)}

VizPointLists == SeqsUpTo(VizPoints, MaxVizPoints)

\* Points that differ in their label: a long string, no label key, a number,
\* and a number on a point whose value holds no number.
LabelPoints ==
    {VizPoint("Quarterly revenue", "str", <<"1", "0", "%">>),
     VizPoint("", "absent", <<"2", "0", "%">>),
     VizPoint("7", "number", <<"1", "0", "%">>),
     VizPoint("7", "number", <<"a", "b", "c">>)}

LabelPointLists == SeqsUpTo(LabelPoints, MaxLabelPoints)

\* The emphasis instructions considered: targets that occur in the body, that
\* occur only once a tag was inserted ("b", "<b>"), that never occur, an empty
\* target, a format outside the three, and an entry without a format.
EmphasisInstructions ==
    {Emphasis("up", TRUE, "bold"),
     Emphasis("b", TRUE, "italic"),
     Emphasis("<b>", TRUE, "underline"),
     Emphasis("10%", TRUE, "bold"),
     Emphasis("zz", TRUE, "underline"),
     Emphasis("", TRUE, "bold"),
     Emphasis("up", TRUE, "highlight"),
     Emphasis("on", FALSE, "")}

EmphasisLists == SeqsUpTo(EmphasisInstructions, MaxEmphasis)

EmphasisBody == "up 10% on TR Band"

\* Bodies for the automatic rules alone.
AutomaticBodies == {"1.5% of TR Bands 5 %", "x2.50%-TR Band, 3.%"}

RECURSIVE Repeated(_, _)
Repeated(s, n) == IF n = 0 THEN "" ELSE s \o Repeated(s, n - 1)

\* A body of 100 sentences, 1200 characters.
LongBody == Repeated("Alpha beta. ", 100)

OneSubsection(content) ==
    [EmptyStructure EXCEPT !.subsections = <<[subheader |-> "", content |-> content]>>]

\* The parsed section responses considered: one that only carries extracted
\* data, one that only carries visualization data.
RenderPayloads(header) ==
    LET bare == BareSectionPayload(header)
    IN  {[bare EXCEPT !.content_structure =
                         [EmptyStructure EXCEPT !.data_extracted = d]]
            : d \in DataPointLists}
        \cup {[bare EXCEPT !.visualization_data =
                              [has_visualizable_data |-> TRUE, chart_type |-> t,
                               data_points |-> pts]]
                 : t \in {"bar", "pie", "line"}, pts \in VizPointLists}
        \cup {[bare EXCEPT !.visualization_data =
                              [has_visualizable_data |-> TRUE, chart_type |-> t,
                               data_points |-> pts]]
                 : t \in {"bar", "pie"}, pts \in LabelPointLists}
        \cup {[bare EXCEPT !.visualization_data =
                              [FullVisualization EXCEPT !.has_visualizable_data = FALSE]]}
        \cup {[bare EXCEPT !.content_structure = OneSubsection(EmphasisBody),
                           !.text_emphasis = em] : em \in EmphasisLists}
        \cup {[bare EXCEPT !.content_structure = OneSubsection(body)]
                 : body \in AutomaticBodies \cup {LongBody}}

\* generate_pdf on a fresh generator, phases 1 to 4 done: the analysis and the
\* layout fell back, the one section's request came back with one of the
\* payloads considered, and the styles are registered.
RenderInit ==
    /\ styles = RegisterStyles(SampleStyleSheet, DefaultPrimary)
    /\ colors = DefaultPrimary
    /\ calls = 1
    /\ pc = "build"
    /\ sections = InputSections(1)
    /\ doc_intelligence = FallbackAnalysis
    /\ order_pos = 0
    /\ optimized_sections = <<>>
    /\ \E payload \in RenderPayloads(HeaderOf(1)) :
          optimized_content = <<OptimizedSection(0, InputSections(1)[1], payload)>>
    /\ optimization_path = "try"
    /\ layout_opt = FallbackLayout
    /\ story = <<>>
    /\ oracle_log = <<LogEntry("analysis", FALSE), LogEntry("section", TRUE),
                      LogEntry("layout", FALSE)>>
    /\ raised_at = "none"
    /\ DirectCall

RenderNext ==
    \/ BuildDocument
    \/ Render

RenderSpec == RenderInit /\ [][RenderNext]_vars

\* ------------------------------------------------ the /generate-pdf endpoint
\* A section of request.sections is the number of header/content pairs it holds.
\* A test that lets every section with at least one pair through.
HoldsSomePair(section) == section >= 1

\* len(section) != 1, the test both validators make on a section.
HoldsOnePair(section) == section = 1

\* PDFRequest.validate_sections: raises ValueError on an empty list and on a
\* section that does not hold one pair.
ValidateSections(v) == v # <<>> /\ \A k \in 1..Len(v) : HoldsOnePair(v[k])

\* ValidationAgent.validate_input: is_valid of its result.
ValidateInputIsValid(secs) ==
    secs # <<>> /\ \A k \in 1..Len(secs) : HoldsOnePair(secs[k])

\* The requests considered: every list of up to MaxRequestSections sections
\* of up to MaxPairs pairs in which at most the one-section list conforms.
EndpointRequests ==
    {r \in SeqsUpTo(0..MaxPairs, MaxRequestSections) :
        (\A k \in 1..Len(r) : r[k] = 1) => Len(r) <= 1}

RequestFilenames == {"", "report.pdf"}

GeneratedFilename == "document_20240101_000000.pdf"

\* The plans the planner's oracle can answer with.
PlannerPlans ==
    {[strategy |-> "oracle", section_breaks |-> b] : b \in {{}, {0}, {0, 1}}}

PlannerResponses ==
    {[kind |-> k, plan |-> DefaultLayoutPlan] : k \in {"exception", "not_json"}}
    \cup {[kind |-> "json", plan |-> p] : p \in PlannerPlans}

\* plan_layout: the parsed plan, or the default plan on any failure.
PlanLayoutResult(resp) == IF resp.kind = "json" THEN resp.plan ELSE DefaultLayoutPlan

\* The request body is parsed into a PDFRequest before the endpoint's body
\* runs; a validator's ValueError is answered with 422.
ParseRequest ==
    /\ pc = "received"
    /\ IF ValidateSections(request)
       THEN pc' = "validate_input" /\ UNCHANGED status
       ELSE pc' = "responded" /\ status' = 422
    /\ UNCHANGED <<styles, colors, calls, sections, doc_intelligence, order_pos,
                   optimized_sections, optimized_content, optimization_path, layout_opt,
                   story, oracle_log, raised_at, request, layout_plan, filename,
                   reference>>

\* validator.validate_input; the HTTPException(400) it leads to is raised
\* inside the try block and leaves the endpoint as a 500.
ValidateInput ==
    /\ pc = "validate_input"
    /\ IF ValidateInputIsValid(request)
       THEN pc' = "plan_layout" /\ UNCHANGED status
       ELSE pc' = "responded" /\ status' = 500
    /\ UNCHANGED <<styles, colors, calls, sections, doc_intelligence, order_pos,
                   optimized_sections, optimized_content, optimization_path, layout_opt,
                   story, oracle_log, raised_at, request, layout_plan, filename,
                   reference>>

\* gpt_planner.plan_layout: one oracle request.
PlanLayout ==
    /\ pc = "plan_layout"
    /\ \E resp \in PlannerResponses :
          /\ layout_plan' = PlanLayoutResult(resp)
          /\ oracle_log' = Append(oracle_log, LogEntry("planner", resp.kind = "json"))
    /\ pc' = "generate_pdf"
    /\ UNCHANGED <<styles, colors, calls, sections, doc_intelligence, order_pos,
                   optimized_sections, optimized_content, optimization_path, layout_opt,
                   story, raised_at, request, filename, status, reference>>

\* pdf_generator.generate_pdf(sections, layout_plan, filename) on the shared
\* generator.
CallGenerator ==
    /\ pc = "generate_pdf"
    /\ sections' = InputSections(Len(request))
    /\ filename' = IF filename = "" THEN GeneratedFilename ELSE filename
    /\ calls' = calls + 1
    /\ pc' = "analysis"
    /\ UNCHANGED <<styles, colors, doc_intelligence, order_pos, optimized_sections,
                   optimized_content, optimization_path, layout_opt, story, oracle_log,
                   raised_at, request, layout_plan, status, reference>>

\* The endpoint's answer once generate_pdf returned or raised: 500 when it
\* raised; after a return, building the response from the returned bytes
\* succeeds or raises.
Respond ==
    /\ pc \in {"done", "raised"}
    /\ \E built \in BOOLEAN :
          status' = IF pc = "done" /\ built THEN 200 ELSE 500
    /\ pc' = "responded"
    /\ UNCHANGED <<styles, colors, calls, sections, doc_intelligence, order_pos,
                   optimized_sections, optimized_content, optimization_path, layout_opt,
                   story, oracle_log, raised_at, request, layout_plan, filename,
                   reference>>

\* A request arrives at a freshly started service.
EndpointInit ==
    /\ styles = SampleStyleSheet
    /\ colors = "unset"
    /\ calls = 0
    /\ pc = "received"
    /\ sections = <<>>
    /\ doc_intelligence = FallbackAnalysis
    /\ order_pos = 0
    /\ optimized_sections = <<>>
    /\ optimized_content = <<>>
    /\ optimization_path = "none"
    /\ layout_opt = NoLayout
    /\ story = <<>>
    /\ oracle_log = <<>>
    /\ raised_at = "none"
    /\ request \in EndpointRequests
    /\ layout_plan = DefaultLayoutPlan
    /\ filename \in RequestFilenames
    /\ status = 0
    /\ reference = NoReference

EndpointNext ==
    \/ ParseRequest
    \/ ValidateInput
    \/ PlanLayout
    \/ CallGenerator
    \/ Analysis
    \/ OptimizeSection
    \/ OptimizationIndexError
    \/ OptimizationReturn
    \/ Layout
    \/ SetupIntelligentStyles
    \/ BuildDocument
    \/ Render
    \/ Respond

EndpointSpec == EndpointInit /\ [][EndpointNext]_vars

\* ------------------------------- two runs that differ in plan and file name
\* The same sections are handed to another fresh generator with another
\* layout_plan and filename, the oracle answering phases 1 to 3 as before;
\* the finished run is kept for comparison.
RunAgain ==
    /\ pc = "done"
    /\ ~reference.set
    /\ reference' = [set |-> TRUE, story |-> story, oracle_log |-> oracle_log,
                      layout_plan |-> layout_plan, filename |-> filename]
    /\ layout_plan' \in PlannerPlans \ {layout_plan}
    /\ filename' \in {"report.pdf", GeneratedFilename} \ {filename}
    /\ story' = <<>>
    /\ oracle_log' = SubSeq(oracle_log, 1, 3)
    /\ pc' = "build"
    /\ UNCHANGED <<styles, colors, calls, sections, doc_intelligence, order_pos,
                   optimized_sections, optimized_content, optimization_path, layout_opt,
                   raised_at, request, status>>

\* The layouts of phase 3 considered for two sections.
PlanLayouts ==
    {FallbackLayout}
    \cup {[FallbackLayout EXCEPT !.source = "oracle", !.optimal_page_breaks = b]
            : b \in SUBSET {0, 1}}

\* generate_pdf on a fresh generator, phases 1 to 4 done for two sections
\* whose requests came back, with one of the plans, layouts and file names
\* considered.
PlanInit ==
    /\ styles = RegisterStyles(SampleStyleSheet, DefaultPrimary)
    /\ colors = DefaultPrimary
    /\ calls = 1
    /\ pc = "build"
    /\ sections = InputSections(2)
    /\ doc_intelligence = FallbackAnalysis
    /\ order_pos = 0
    /\ optimized_sections = <<>>
    /\ \E payload \in {BareSectionPayload(HeaderOf(1)),
                         [BareSectionPayload(HeaderOf(1))
                             EXCEPT !.content_structure = FullStructure]} :
          optimized_content =
              <<OptimizedSection(0, InputSections(2)[1], payload),
                OptimizedSection(1, InputSections(2)[2], BareSectionPayload(HeaderOf(2)))>>
    /\ optimization_path = "try"
    /\ layout_opt \in PlanLayouts
    /\ story = <<>>
    /\ oracle_log = <<LogEntry("analysis", FALSE), LogEntry("section", TRUE),
                      LogEntry("section", TRUE)>>
    /\ raised_at = "none"
    /\ request = <<1, 1>>
    /\ layout_plan \in PlannerPlans
    /\ filename \in {"report.pdf", GeneratedFilename}
    /\ status = 0
    /\ reference = NoReference

PlanNext ==
    \/ BuildDocument
    \/ Render
    \/ RunAgain

PlanSpec == PlanInit /\ [][PlanNext]_vars

\* ---------------------------------------------------------------- claims
\* The requests the three phases issued (the conclusions' own request left out).
PhaseLog == SelectSeq(oracle_log, LAMBDA e : e.kind # "recommendations")

KindLog(kind) == SelectSeq(oracle_log, LAMBDA e : e.kind = kind)

\* The running call is past phase 3.
PastLayout == pc \in {"styles", "build", "render", "done", "raised"}

\* The call has handed its story to the renderer, or raised before it could.
Finished == pc \in {"render", "done", "raised"}

AllPhaseOraclesFailed == PastLayout /\ \A k \in 1..Len(PhaseLog) : ~PhaseLog[k].ok

RaisedBeforeRender == pc = "raised" /\ raised_at # "render"

\* C1: for a non-empty well-formed section list, when the analysis call, every
\* section-optimization call and the layout call all fail, generate_pdf does
\* not raise and the RenderBlock sequence it hands to the renderer is non-empty.
C1_AllOraclesFailStillGenerates ==
    (Finished /\ AllPhaseOraclesFailed) => (~RaisedBeforeRender /\ story # <<>>)

\* C2: generate_pdf raises only when the final rendering step fails: no outcome
\* of an oracle call in any of the three phases makes it raise.
C2_RaisesOnlyWhenRenderFails ==
    pc = "raised" => raised_at = "render"

\* C3: the k-th call (k >= 2) on one generator instance succeeds whenever the
\* same call would succeed on a freshly constructed generator: style setup
\* raises on the instance only if it raises on a fresh registry.
C3_LaterCallSucceedsLikeFresh ==
    (calls >= 2 /\ pc = "raised" /\ raised_at \in {"styles_color", "styles_add"})
        => (ColorSetupRaises(doc_intelligence) \/ StyleSetupRaises(SampleStyleSheet))

\* The registry holds styles resolved from another request's design system.
RegistryOfOtherDesign ==
    /\ IntelligentStyleNames[1] \in DOMAIN styles
    /\ styles[IntelligentStyleNames[1]] # PalettePrimary(doc_intelligence)

\* C4: with requests of different design systems on the shared generator, every
\* block of a request carries only the colours resolved from its own design
\* system, and no request fails on the styles another request left behind.
C4_ReentrantAcrossRequests ==
    /\ \A k \in 1..Len(story) :
          story[k].pal \in {"none", PalettePrimary(doc_intelligence)}
    /\ ~(pc = "raised" /\ raised_at = "styles_add" /\ RegistryOfOtherDesign)

\* The phases' requests appear in the order analysis, section*, layout.
RECURSIVE KindsInPhaseOrder(_, _)
KindsInPhaseOrder(log, rank) ==
    IF log = <<>> THEN TRUE
    ELSE LET r == CASE Head(log).kind = "analysis" -> 1
                    [] Head(log).kind = "section" -> 2
                    [] Head(log).kind = "layout" -> 3
                    [] OTHER -> 4
         IN  r >= rank /\ KindsInPhaseOrder(Tail(log), r)

\* C5: for each combination of success and failure of the three phases, the
\* phases run in the order analysis, section optimization, layout optimization
\* and assembly is then reached: a failed phase never keeps a later phase from
\* running and calling its own oracle.
C5_FailureNeverAbortsLaterPhases ==
    (pc \in {"done", "raised"}) =>
        /\ KindsInPhaseOrder(oracle_log, 1)
        /\ Len(KindLog("analysis")) = 1
        /\ Len(KindLog("layout")) = 1
        /\ (~KindLog("analysis")[1].ok => Len(KindLog("section")) >= 1)
        /\ raised_at \notin {"styles_color", "styles_add"}

\* The part of C5 that does not depend on style setup: whatever the earlier
\* phases did, each phase issues its request, in order.
C5_OraclePhasesAlwaysRun ==
    PastLayout =>
        /\ KindsInPhaseOrder(oracle_log, 1)
        /\ Len(KindLog("analysis")) = 1
        /\ Len(KindLog("layout")) = 1
        /\ (~KindLog("analysis")[1].ok => Len(KindLog("section")) >= 1)

\* The same statement on a freshly constructed generator (its first call).
C1_HoldsOnFreshGenerator ==
    (calls = 1 /\ Finished /\ AllPhaseOraclesFailed) => (~RaisedBeforeRender /\ story # <<>>)

\* What the fallback of phase 2 has to look like for these input sections.
FallbackShaped(content, secs) ==
    /\ Len(content) = Len(secs)
    /\ \A i \in 1..Len(secs) :
          /\ content[i].original_index = i - 1
          /\ content[i].original_header = secs[i].header
          /\ content[i].original_content = secs[i].content
          /\ content[i].optimization.enhanced_header = secs[i].header
          /\ content[i].optimization.content_structure.key_points = <<>>
          /\ content[i].optimization.content_structure.data_extracted = <<>>

NoDataTableOrChart ==
    \A k \in 1..Len(story) :
        /\ ~(story[k].kind = "Table" /\ story[k].part = "sections")
        /\ story[k].kind # "Chart"

\* C6: whenever the section-optimization phase falls back, its result is one
\* OptimizedSection per input section in identity order, each keeping the
\* original header and content verbatim, with empty key points and no data
\* points, so that assembling it emits no Table block and no Chart block.
C6_FallbackKeepsSectionsVerbatim ==
    optimization_path = "except" =>
        (FallbackShaped(optimized_content, sections) /\ NoDataTableOrChart)

C6_Witness ==
    /\ optimization_path = "except"
    /\ pc = "done"
    /\ Len(sections) >= 2
    /\ \E k \in 1..Len(oracle_log) : oracle_log[k].kind = "section" /\ oracle_log[k].ok

SectionPartBlocks == SelectSeq(story, LAMBDA b : b.part = "sections")

\* C7: when all oracle calls fail the document is complete: for every input
\* section, in original order, both its header and its content text appear in
\* the main sections, and no Table or Chart block appears.
C7_AllFailDocumentIsComplete ==
    (pc \in {"render", "done"} /\ AllPhaseOraclesFailed) =>
        /\ \A i \in 1..Len(sections) :
              /\ \E k \in 1..Len(SectionPartBlocks) :
                    /\ SectionPartBlocks[k].sec = i - 1
                    /\ SectionPartBlocks[k].text = sections[i].header
              /\ \E k \in 1..Len(SectionPartBlocks) :
                    /\ SectionPartBlocks[k].sec = i - 1
                    /\ SectionPartBlocks[k].text = sections[i].content
        /\ NoDataTableOrChart

\* The part of C7 the code does keep: the headers, in order, and no table or chart.
C7_AllFailKeepsHeaders ==
    (pc \in {"render", "done"} /\ AllPhaseOraclesFailed) =>
        /\ SelectSeq(SectionPartBlocks, LAMBDA b : b.role = "header")
              = [i \in 1..Len(sections) |->
                    Para("sections", "header", i - 1, sections[i].header, "SectionHeader")]
        /\ NoDataTableOrChart

\* The analysis request failed; every section request and the layout request
\* came back with a complete response (no key the assembly subscripts missing).
AnalysisFailedOthersSucceeded ==
    /\ PastLayout
    /\ ~KindLog("analysis")[1].ok
    /\ \A k \in 1..Len(KindLog("section")) : KindLog("section")[k].ok
    /\ KindLog("layout")[1].ok
    /\ BuildRaisesAt(optimized_content, layout_opt) = "none"

\* C8: when the analysis phase fails while every section-optimization call and
\* the layout call succeed, generate_pdf completes and the RenderBlock sequence
\* contains the original header of every input section verbatim.
C8_AnalysisFailureKeepsOriginalHeaders ==
    (Finished /\ AnalysisFailedOthersSucceeded) =>
        /\ ~RaisedBeforeRender
        /\ \A i \in 1..Len(sections) :
              \E k \in 1..Len(story) : story[k].text = sections[i].header

PartRank(part) ==
    CASE part = "title_page" -> 1
      [] part = "table_of_contents" -> 2
      [] part = "executive_summary" -> 3
      [] part = "sections" -> 4
      [] part = "conclusions" -> 5
      [] part = "appendix" -> 6
      [] OTHER -> 0

RoleRank(role) ==
    CASE role = "header" -> 1
      [] role = "summary" -> 2
      [] role = "table" -> 3
      [] role \in {"subheader", "body"} -> 4
      [] role \in {"key_points_title", "key_point"} -> 5
      [] role = "chart" -> 6
      [] role = "page_break" -> 7
      [] OTHER -> 0

\* Rank order along the whole story follows from the order of neighbours.
PartsInFixedOrder ==
    \A k \in 1..(Len(story) - 1) :
        PartRank(story[k].part) <= PartRank(story[k + 1].part)

SectionsInListOrder ==
    /\ \A k \in 1..(Len(SectionPartBlocks) - 1) :
          SectionPartBlocks[k].sec <= SectionPartBlocks[k + 1].sec
    /\ SelectSeq(SectionPartBlocks, LAMBDA b : b.role = "header")
          = [k \in 1..Len(optimized_content) |->
                Para("sections", "header", k - 1,
                     optimized_content[k].optimization.enhanced_header, "SectionHeader")]

WithinSectionOrder ==
    LET blocks == SelectSeq(SectionPartBlocks, LAMBDA b : b.role # "spacer")
    IN  /\ \A k \in 1..(Len(blocks) - 1) :
              blocks[k].sec = blocks[k + 1].sec
                  => RoleRank(blocks[k].role) <= RoleRank(blocks[k + 1].role)
        /\ \A k \in 1..Len(blocks) :
              /\ RoleRank(blocks[k].role) > 0
              /\ blocks[k].role = "body" => (k > 1 /\ blocks[k - 1].role = "subheader")
              /\ blocks[k].role = "page_break" =>
                    (k = Len(blocks) \/ blocks[k + 1].sec > blocks[k].sec)

PartPresent(part) == \E k \in 1..Len(story) : story[k].part = part

RolePresentIn(i, role) ==
    \E k \in 1..Len(story) :
        story[k].part = "sections" /\ story[k].sec = i /\ story[k].role = role

LacksIncludeFlag(block) ==
    /\ layout_opt.source = "oracle"
    /\ (~layout_opt.has_document_flow \/ layout_opt.include[block] \in {"no_flag", "no_entry"})

\* Phase 5 ran: it built the story, or it raised.
AssemblyRan ==
    pc \in {"render", "done"}
    \/ (pc = "raised" /\ raised_at \notin {"none", "styles_color", "styles_add"})

\* C10: for each structural block, when the layout plan of a successful layout
\* call lacks that block's include flag (or the enclosing entry), the block is
\* included in the output and assembly does not fail.
C10_AbsentFlagMeansInclude ==
    \A b \in StructuralBlocks :
        (AssemblyRan /\ LacksIncludeFlag(b)) => (~RaisedBeforeRender /\ PartPresent(b))

\* The one block for which C10 does hold: the table of contents, whose flag
\* is never read.
C10_TocIncludedWithoutFlag ==
    (AssemblyRan /\ ~RaisedBeforeRender) => PartPresent("table_of_contents")

\* The layout plan came from the oracle and sets the block's include flag false.
FlagIsFalse(block) ==
    /\ layout_opt.source = "oracle"
    /\ layout_opt.has_document_flow
    /\ layout_opt.include[block] = "false"

StoryBuilt == pc \in {"render", "done"}

\* C11: for each of the five structural blocks (title page, table of contents,
\* executive summary, conclusions, appendix), when the layout plan sets the
\* block's include flag to false, none of the block's RenderBlocks appear in
\* the output sequence.
C11_FalseFlagExcludesBlock ==
    \A b \in StructuralBlocks :
        (StoryBuilt /\ FlagIsFalse(b)) => ~PartPresent(b)

\* The four blocks whose flag the assembly does read.
C11_FlaggedBlocksExcluded ==
    \A b \in StructuralBlocks \ {"table_of_contents"} :
        (StoryBuilt /\ FlagIsFalse(b)) => ~PartPresent(b)

InRange(idx, n) == idx >= 0 /\ idx < n

OriginalIndexes(content) == [k \in 1..Len(content) |-> content[k].original_index]

\* The running call is past phase 2.
PastOptimization == pc \in {"layout", "styles", "build", "render", "done", "raised"}

NoSectionCallFailed == \A k \in 1..Len(KindLog("section")) : KindLog("section")[k].ok

\* C12: every entry of optimal_section_order outside 0..n-1 (too large or
\* negative) is dropped without error: it yields no OptimizedSection and does
\* not trigger the phase fallback, so every OptimizedSection of a successful
\* optimization phase has original_index in 0..n-1.
C12_OutOfRangeEntriesDropped ==
    /\ optimization_path = "try" =>
          \A k \in 1..Len(optimized_content) :
              InRange(optimized_content[k].original_index, Len(sections))
    /\ optimization_path = "except" => ~NoSectionCallFailed

\* The part of C12 the code keeps: an entry at or above n is skipped.
C12_TooLargeEntriesDropped ==
    optimization_path = "try" =>
        \A k \in 1..Len(optimized_content) :
            optimized_content[k].original_index < Len(sections)

\* C13: when the analysis result's optimal_section_order is absent or is the
\* empty list, the optimization phase processes the sections in identity order
\* 0..n-1 and yields n OptimizedSections (every section call succeeding).
C13_AbsentOrEmptyOrderIsIdentity ==
    (PastOptimization /\ NoSectionCallFailed
     /\ (~doc_intelligence.order.present \/ doc_intelligence.order.list = <<>>))
        => OriginalIndexes(optimized_content) = IdentityOrder(Len(sections))

\* The absent half of C13, which the code keeps.
C13_AbsentOrderIsIdentity ==
    (PastOptimization /\ NoSectionCallFailed /\ ~doc_intelligence.order.present)
        => OriginalIndexes(optimized_content) = IdentityOrder(Len(sections))

\* The in-range entries of the order the analysis gave, as given.
InRangeEntries ==
    SelectSeq(OptimalOrder(doc_intelligence, Len(sections)),
              LAMBDA idx : InRange(idx, Len(sections)))

\* C14: when every section-optimization call succeeds, the original_index
\* values of the OptimizedSection list are the in-range entries of
\* optimal_section_order, in the given order and with duplicates kept.
C14_ResultFollowsInRangeEntries ==
    (PastOptimization /\ NoSectionCallFailed)
        => OriginalIndexes(optimized_content) = InRangeEntries

\* C14 for the orders that hold no negative entry.
C14_HoldsWithoutNegativeEntries ==
    (PastOptimization /\ NoSectionCallFailed
     /\ \A k \in 1..Len(OptimalOrder(doc_intelligence, Len(sections))) :
           OptimalOrder(doc_intelligence, Len(sections))[k] >= 0)
        => OriginalIndexes(optimized_content) = InRangeEntries

ReorderFinished(n, list) ==
    /\ optimization_path = "try"
    /\ Len(sections) = n
    /\ doc_intelligence.order = [present |-> TRUE, list |-> list]

\* C15 as stated: for optimal_section_order = [2, 5, 0] over a 3-section input
\* with every section call succeeding, indices 2 and 5 are dropped and the
\* OptimizedSection list holds exactly one entry, the one of original_index 0.
C15_OnlyIndexZeroSurvives ==
    ReorderFinished(3, <<2, 5, 0>>) => OriginalIndexes(optimized_content) = <<0>>

\* C15 as amended: for optimal_section_order = [2, 5, 0] over a 3-section input
\* with every section call succeeding, only index 5 is dropped and the
\* OptimizedSection list holds exactly two entries, the third section
\* (original_index 2) and then the first (original_index 0).
C15_OnlyIndexFiveDropped ==
    ReorderFinished(3, <<2, 5, 0>>) =>
        /\ OriginalIndexes(optimized_content) = <<2, 0>>
        /\ optimized_content[1].original_header = HeaderOf(3)
        /\ optimized_content[2].original_header = HeaderOf(1)

C15_Witness ==
    /\ ReorderFinished(3, <<2, 5, 0>>)
    /\ pc = "layout"
    /\ Len(KindLog("section")) = 2

SectionTables == SelectSeq(story, LAMBDA b : b.kind = "Table" /\ b.part = "sections")

SectionCharts == SelectSeq(story, LAMBDA b : b.kind = "Chart")

\* C16: for a list of k extracted data points, the table renderer emits no
\* table when k = 0 and otherwise one table whose data rows (below its header
\* row) are exactly min(k, 5), the first min(k, 5) data points in their order.
C16_TableHasFirstFiveRows ==
    (StoryBuilt /\ Len(optimized_content) = 1) =>
        LET d == optimized_content[1].optimization.content_structure.data_extracted
            k == Len(d)
        IN  /\ k = 0 => SectionTables = <<>>
            /\ k > 0 =>
                  /\ Len(SectionTables) = 1
                  /\ LET rows == Tail(SectionTables[1].rows)
                     IN  /\ Len(rows) = (IF k < 5 THEN k ELSE 5)
                         /\ \A j \in 1..Len(rows) :
                               /\ rows[j].metric = d[j].metric
                               /\ rows[j].value = d[j].value

C16_Witness ==
    /\ pc = "done"
    /\ Len(optimized_content) = 1
    /\ Len(optimized_content[1].optimization.content_structure.data_extracted) = 8
    /\ optimized_content[1].optimization.content_structure.data_extracted[1].metric
          # optimized_content[1].optimization.content_structure.data_extracted[5].metric
    /\ Len(SectionTables) = 1
    /\ Len(SectionTables[1].rows) = 6

HasNumber(value) == \E j \in 1..Len(value) : IsDigit(value[j])

\* The points the chart kind looks at: the first 5 for a bar chart, the first
\* 4 for a pie chart.
ConsideredPoints(viz) ==
    LET limit == IF viz.chart_type = "pie" THEN 4 ELSE 5
    IN  SubSeq(viz.data_points, 1, IF Len(viz.data_points) < limit
                                   THEN Len(viz.data_points) ELSE limit)

SurvivingPoints(viz) == SelectSeq(ConsideredPoints(viz), LAMBDA p : HasNumber(p.value))

\* C17: a chart block is emitted only if at least 2 data points survive numeric
\* extraction: for every chart_type and every list of data points, if fewer
\* than 2 of the considered points have a parseable number, no chart is
\* emitted; and no error is raised.
C17_ChartNeedsTwoSurvivingPoints ==
    /\ (StoryBuilt /\ Len(optimized_content) = 1) =>
          (Len(SurvivingPoints(optimized_content[1].optimization.visualization_data)) < 2
              => SectionCharts = <<>>)
    /\ ~(pc = "raised" /\ raised_at = "sections")

\* What the code keeps of C17: no chart for fewer than 2 data points or
\* without a surviving point, and no error.
C17_ChartNeedsTwoPointsOneSurviving ==
    /\ (StoryBuilt /\ Len(optimized_content) = 1) =>
          LET viz == optimized_content[1].optimization.visualization_data
          IN  (Len(viz.data_points) < 2 \/ Len(SurvivingPoints(viz)) < 1)
                  => SectionCharts = <<>>
    /\ ~(pc = "raised" /\ raised_at = "sections")

\* A chart of this kind is constructed for these points.
ChartConstructed(viz) ==
    /\ viz.has_visualizable_data
    /\ viz.chart_type \in {"bar", "pie"}
    /\ Len(viz.data_points) >= 2

ExampleValues == <<(<<"1", "0", "%">>), (<<"a", "b", "c">>), (<<"2", "0", "%">>)>>

\* C18: in chart construction, among the first 5 (bar) or first 4 (pie) data
\* points, the plotted points are exactly those whose value string holds a
\* numeric token, in their order, each plotted with its first numeric token;
\* values ["10%", "abc", "20%"] yield exactly 2 plotted points (10 and 20) and
\* a chart is emitted.
C18_PlottedPointsAreNumericOnes ==
    (StoryBuilt /\ Len(optimized_content) = 1
     /\ ChartConstructed(optimized_content[1].optimization.visualization_data)) =>
        LET viz == optimized_content[1].optimization.visualization_data
            kept == SurvivingPoints(viz)
            plotted == IF SectionCharts = <<>> THEN <<>> ELSE SectionCharts[1].rows.values
        IN  /\ Len(SectionCharts) <= 1
            /\ Len(plotted) = Len(kept)
            /\ \A j \in 1..Len(kept) :
                  plotted[j] =
                      (CASE kept[j].value = <<"1", "0", "%">> -> <<"1", "0">>
                         [] kept[j].value = <<"2", "0", "%">> -> <<"2", "0">>
                         [] OTHER -> <<"1", ".", "5">>)
            /\ [j \in 1..Len(viz.data_points) |-> viz.data_points[j].value] = ExampleValues
                  => /\ Len(SectionCharts) = 1
                     /\ plotted = <<(<<"1", "0">>), (<<"2", "0">>)>>

C18_Witness ==
    /\ pc = "done"
    /\ Len(optimized_content) = 1
    /\ ChartConstructed(optimized_content[1].optimization.visualization_data)
    /\ [j \in 1..Len(optimized_content[1].optimization.visualization_data.data_points) |->
           optimized_content[1].optimization.visualization_data.data_points[j].value]
          = ExampleValues
    /\ Len(SectionCharts) = 1
    /\ Len(SectionCharts[1].rows.values) = 2

\* The blocks the main sections emitted for the section at position i.
BlocksOfSection(i) == SelectSeq(story, LAMBDA b : b.part = "sections" /\ b.sec = i)

ListedForPageBreak(i) == layout_opt.has_page_breaks /\ i \in layout_opt.optimal_page_breaks

\* C19: in the main sections a PageBreak block is emitted as the last block of
\* the section at position i of the OptimizedSection list if and only if i is
\* in the layout plan's optimal_page_breaks; when the list is absent or empty
\* no PageBreak is emitted inside the main sections.
C19_PageBreakIffListed ==
    StoryBuilt =>
        \A i \in 0..(Len(optimized_content) - 1) :
            LET blocks == BlocksOfSection(i)
            IN  /\ blocks # <<>>
                /\ (blocks[Len(blocks)].kind = "PageBreak") <=> ListedForPageBreak(i)
                /\ \A k \in 1..(Len(blocks) - 1) : blocks[k].kind # "PageBreak"

C19_Witness ==
    /\ pc = "done"
    /\ Len(optimized_content) = 2
    /\ optimized_content[1].original_index = 1
    /\ optimized_content[2].original_index = 0
    /\ layout_opt.optimal_page_breaks = {1}
    /\ BlocksOfSection(1)[Len(BlocksOfSection(1))].kind = "PageBreak"
    /\ BlocksOfSection(0)[Len(BlocksOfSection(0))].kind # "PageBreak"

\* The entries of the order the loop of phase 2 does not skip.
ProcessedEntries ==
    SelectSeq(OptimalOrder(doc_intelligence, Len(sections)),
              LAMBDA idx : idx < Len(sections))

PhaseKinds == {"analysis", "section", "layout"}

\* A failed request of a phase is the last request that phase issues.
FailedRequestIsLast ==
    \A k \in 1..Len(oracle_log) :
        (oracle_log[k].kind \in PhaseKinds /\ ~oracle_log[k].ok) =>
            \A j \in (k + 1)..Len(oracle_log) : oracle_log[j].kind # oracle_log[k].kind

\* After a failed request the phase's result is its fallback.
FailedPhaseUsesFallback ==
    /\ (pc \notin {"idle", "analysis"} /\ ~KindLog("analysis")[1].ok)
          => doc_intelligence = FallbackAnalysis
    /\ (\E k \in 1..Len(KindLog("section")) : ~KindLog("section")[k].ok)
          => /\ optimization_path = "except"
             /\ optimized_content = FallbackContentOptimization(sections)
    /\ (PastLayout /\ ~KindLog("layout")[1].ok) => layout_opt = FallbackLayout

\* C20: within one generation no oracle request is retried: the analysis
\* request is issued exactly once, the layout request exactly once, a section
\* request at most once per surviving entry of optimal_section_order; after an
\* oracle call fails that phase issues no further call and uses its fallback.
C20_NoOracleRetry ==
    /\ Len(KindLog("analysis")) = (IF pc \in {"idle", "analysis"} THEN 0 ELSE 1)
    /\ Len(KindLog("layout")) = (IF PastLayout THEN 1 ELSE 0)
    /\ Len(KindLog("section")) <= Len(ProcessedEntries)
    /\ FailedRequestIsLast
    /\ FailedPhaseUsesFallback

C20_Witness ==
    /\ pc = "done"
    /\ Len(ProcessedEntries) = 2
    /\ Len(KindLog("section")) = 2
    /\ KindLog("section")[1].ok
    /\ ~KindLog("section")[2].ok
    /\ ~KindLog("analysis")[1].ok
    /\ ~KindLog("layout")[1].ok

\* C21: the oracle calls all lie in the three phases: once the layout phase
\* has returned, building the RenderBlock sequence (title page, table of
\* contents, executive summary, sections, recommendations, appendix) issues no
\* oracle request.
C21_AssemblyIssuesNoOracleRequest ==
    \A k \in 1..Len(oracle_log) : oracle_log[k].kind \in PhaseKinds

\* What holds instead: assembly issues a request exactly when it reaches the
\* recommendations, and then one.
C21_OnlyRecommendationsCallTheOracle ==
    AssemblyRan =>
        Len(KindLog("recommendations"))
            = (IF ReachesConclusions(optimized_content, layout_opt) THEN 1 ELSE 0)

\* The analysis gave a palette whose primary colour is not a hex string.
MalformedPalette ==
    /\ doc_intelligence.palette # "absent"
    /\ doc_intelligence.palette \notin {"#2E4053", "#1A5276"}

\* C23: style resolution never raises on missing or malformed optional design
\* fields: for an intelligence object whose design system is absent or holds a
\* malformed value (a colour that is not a hex string), style setup completes
\* and uses the fixed default for that field.
C23_StyleSetupToleratesDesignFields ==
    /\ ~(pc = "raised" /\ raised_at = "styles_color")
    /\ (calls = 1 /\ pc \in {"build", "render", "done"}
        /\ (doc_intelligence.palette = "absent" \/ MalformedPalette))
           => colors = "#2E4053"

\* The absent half of C23, which the code keeps on a fresh generator.
C23_AbsentPaletteUsesDefault ==
    (calls = 1 /\ PastLayout /\ pc # "styles" /\ doc_intelligence.palette = "absent")
        => (raised_at \notin {"styles_color", "styles_add"} /\ colors = "#2E4053")

TocTables == SelectSeq(story, LAMBDA b : b.role = "toc_table")

\* C25: TOC page numbers are a function of the number n of OptimizedSections
\* only: the executive summary entry is page 3, the k-th section entry (k from
\* 0) is page 4 + 2k, Recommendations is page 4 + 2n and Appendix page 5 + 2n,
\* whatever the contents, the headers, the forced page breaks and the
\* structural blocks included.
C25_TocPagesDependOnCountOnly ==
    StoryBuilt =>
        /\ Len(TocTables) = 1
        /\ LET rows == TocTables[1].rows
               n == Len(optimized_content)
           IN  /\ Len(rows) = n + 3
               /\ rows[1] = [entry |-> "Executive Summary", page |-> 3]
               /\ \A k \in 0..(n - 1) : rows[k + 2].page = 4 + 2 * k
               /\ rows[n + 2] = [entry |-> "Recommendations", page |-> 4 + 2 * n]
               /\ rows[n + 3] = [entry |-> "Appendix", page |-> 5 + 2 * n]

C25_Witness ==
    /\ pc = "done"
    /\ Len(optimized_content) = 2
    /\ optimized_content[1].optimization.content_structure.data_extracted # <<>>
    /\ optimized_content[2].optimization.content_structure.data_extracted = <<>>
    /\ layout_opt.optimal_page_breaks = {0}
    /\ TocTables[1].rows[3].page = 6

\* C27: the OptimizedSection list leaving the optimization phase is
\* all-or-nothing: either entirely oracle-produced, one entry per surviving
\* order entry, or entirely the fallback list over all n sections; results of
\* sections optimized before a later failure are discarded, never mixed in.
C27_OptimizationIsAllOrNothing ==
    PastOptimization =>
        \/ /\ optimization_path = "try"
           /\ NoSectionCallFailed
           /\ Len(KindLog("section")) = Len(optimized_content)
           /\ OriginalIndexes(optimized_content) = ProcessedEntries
        \/ /\ optimization_path = "except"
           /\ Len(optimized_content) = Len(sections)
           /\ \A i \in 1..Len(sections) :
                 /\ optimized_content[i].original_index = i - 1
                 /\ optimized_content[i].optimization.enhanced_header = sections[i].header
                 /\ optimized_content[i].optimization.content_structure = EmptyStructure
                 /\ optimized_content[i].optimization.visualization_data = NoVisualization

C27_Witness ==
    /\ pc = "layout"
    /\ optimization_path = "except"
    /\ Len(sections) = 2
    /\ Len(KindLog("section")) = 2
    /\ KindLog("section")[1].ok
    /\ ~KindLog("section")[2].ok

\* C28: every OptimizedSection handed to the layout phase and to assembly
\* carries an optimization.enhanced_header string, whichever mix of oracle
\* success and fallback produced it: a parsed section response lacking
\* enhanced_header, or with a non-string one, makes the whole phase fall back,
\* so the TOC and the section headers never fail on the header.
C28_EveryHeaderIsAString ==
    PastOptimization =>
        /\ \A k \in 1..Len(optimized_content) :
              optimized_content[k].optimization.header_type = "str"
        /\ (BuildRaisesAt(optimized_content, layout_opt) = "sections"
               => \E k \in 1..Len(optimized_content) :
                     ~optimized_content[k].optimization.content_structure.present)

\* What the log line of phase 2 does guarantee: a header that can be sliced.
C28_EveryHeaderSlices ==
    PastOptimization =>
        \A k \in 1..Len(optimized_content) :
            optimized_content[k].optimization.header_type \in {"str", "list"}

\* C30: in chart construction the list of plotted values and the list of
\* category or slice labels have equal length when the chart is added to the
\* drawing, for every list of data points, including points whose label is
\* missing or is not a string.
C30_ValuesAndLabelsSameLength ==
    \A k \in 1..Len(SectionCharts) :
        Len(SectionCharts[k].rows.values) = Len(SectionCharts[k].rows.labels)

\* What holds instead: no more labels than values, and as many when every
\* plotted point's label is a string or is missing.
C30_SameLengthForStringLabels ==
    (StoryBuilt /\ Len(optimized_content) = 1) =>
        LET viz == optimized_content[1].optimization.visualization_data
        IN  \A k \in 1..Len(SectionCharts) :
                /\ Len(SectionCharts[k].rows.labels) <= Len(SectionCharts[k].rows.values)
                /\ (\A j \in 1..Len(viz.data_points) :
                       viz.data_points[j].label_type # "number")
                      => Len(SectionCharts[k].rows.values) = Len(SectionCharts[k].rows.labels)

\* The body paragraphs of the main sections, in story order.
SectionBodies == SelectSeq(story, LAMBDA b : b.part = "sections" /\ b.role = "body")

\* The one section's subsections and its emphasis instructions.
OnlySubsections == optimized_content[1].optimization.content_structure.subsections

OnlyEmphasis == optimized_content[1].optimization.text_emphasis

SentenceBoundary == ". "

\* C24: body text is emitted as an ordered sequence of non-empty chunks, each
\* at most the soft maximum (1000 characters) long except a chunk that is one
\* single sentence; no body paragraph longer than the soft maximum and
\* containing a sentence boundary is emitted unsplit.
C24_BodyChunksWithinSoftMaximum ==
    \A k \in 1..Len(SectionBodies) :
        /\ SectionBodies[k].text # ""
        /\ Len(SectionBodies[k].text) > 1000
              => ~Contains(SectionBodies[k].text, SentenceBoundary)

\* What holds instead: each subsection with a non-empty content gives exactly
\* one body paragraph, whatever its length.
C24_OneParagraphPerSubsectionBody ==
    (StoryBuilt /\ Len(optimized_content) = 1 /\ OnlySubsections # <<>>) =>
        /\ Len(SectionBodies) = 1
        /\ SectionBodies[1].text # ""
        /\ Len(SectionBodies[1].text) >= Len(OnlySubsections[1].content)

\* An instruction that must leave the content cur unchanged: its target is
\* empty or does not occur in cur, or its format is none of the three.
LeavesUnchanged(emphasis, cur) ==
    \/ emphasis.text = ""
    \/ ~Contains(cur, emphasis.text)
    \/ emphasis.has_format /\ emphasis.format \notin {"bold", "italic", "underline"}

BodyFor(content, text_emphasis) ==
    ApplyIntelligentFormatting(content,
                               [optimized_content[1].optimization
                                   EXCEPT !.text_emphasis = text_emphasis])

AutomaticOnly == "up <b>10%</b> on <i>TR Band</i>"

BoldUp == Emphasis("up", TRUE, "bold")

\* C26: text emphasis applies the explicit instructions first, in list order,
\* and the two automatic rules afterwards; an instruction whose target does not
\* occur in the current content, or is empty, or whose format is not
\* bold/italic/underline, leaves the content unchanged and raises no error.
C26_ExplicitInOrderThenAutomatic ==
    (Len(optimized_content) = 1 /\ OnlySubsections # <<>>) =>
        LET content == OnlySubsections[1].content
            em == OnlyEmphasis
            body == SectionBodies[1].text
        IN  /\ pc = "raised" => raised_at = "render"
            /\ StoryBuilt =>
                 /\ Len(SectionBodies) = 1
                 \* the automatic rules alone
                 /\ (content = EmphasisBody /\ em = <<>>) => body = AutomaticOnly
                 /\ content = "1.5% of TR Bands 5 %" => body = "<b>1.5%</b> of TR Bands 5 %"
                 /\ content = "x2.50%-TR Band, 3.%"
                       => body = "x<b>2.50%</b>-<i>TR Band</i>, 3.%"
                 \* explicit instructions come before the automatic rules
                 /\ em = <<Emphasis("10%", TRUE, "bold")>>
                       => body = "up <b><b>10%</b></b> on <i>TR Band</i>"
                 /\ em = <<Emphasis("<b>", TRUE, "underline")>> => body = AutomaticOnly
                 \* list order
                 /\ em = <<BoldUp, Emphasis("b", TRUE, "italic")>>
                       => body = "<<i>b</i>>up</<i>b</i>> <b>10%</b> on <i>TR Band</i>"
                 /\ em = <<Emphasis("b", TRUE, "italic"), BoldUp>>
                       => body = "<b>up</b> <b>10%</b> on <i>TR Band</i>"
                 /\ em = <<BoldUp, Emphasis("<b>", TRUE, "underline")>>
                       => body = "<u><b></u>up</b> <b>10%</b> on <i>TR Band</i>"
                 \* an instruction that must change nothing can be dropped
                 /\ (em # <<>> /\ LeavesUnchanged(em[1], content))
                       => body = BodyFor(content, Tail(em))
                 /\ (Len(em) = 2
                     /\ LeavesUnchanged(em[2], ApplyAllEmphasis(content, <<em[1]>>)))
                       => body = BodyFor(content, <<em[1]>>)

C26_Witness ==
    /\ pc = "done"
    /\ Len(optimized_content) = 1
    /\ OnlySubsections # <<>>
    /\ OnlyEmphasis = <<BoldUp, Emphasis("up", TRUE, "highlight")>>
    /\ Len(SectionBodies) = 1
    /\ SectionBodies[1].text = "<b>up</b> <b>10%</b> on <i>TR Band</i>"

\* C22: for a request whose section list is empty or contains a section that
\* does not hold exactly one header/content pair, the request ends in an error
\* surfaced to the caller and no oracle call (neither the layout planner's nor
\* any generator phase's) is made during that request.
C22_InvalidRequestRejectedBeforeAnyOracleCall ==
    (request = <<>> \/ \E k \in 1..Len(request) : request[k] # 1) =>
        /\ oracle_log = <<>>
        /\ calls = 0
        /\ pc \in {"received", "responded"}
        /\ pc = "responded" => status \in {400, 422, 500}

C22_Witness ==
    /\ request = <<1, 2>>
    /\ pc = "responded"
    /\ status = 422
    /\ oracle_log = <<>>

====
